---- MODULE Spec2Model ----
(***************************************************************************)
(* Model of the Telegram group attendance bot (src/main.py): the users     *)
(* table, the message / join / leave handlers, the periodic and on-demand  *)
(* inactivity sweep, and the report pipeline (counts, filter, sort,        *)
(* pagination, header, inline keyboard).                                   *)
(*                                                                         *)
(* Time is counted in whole minutes.  A nullable column is NULL (<<>>) or  *)
(* a one-element tuple <<v>>.  Text is a sequence of character codes, so   *)
(* that lower() and the ordering of strings are computed, not assumed.     *)
(***************************************************************************)
EXTENDS Integers, Sequences, FiniteSets, TLC

VARIABLES
    users,    \* the users table: user_id -> row
    now,      \* the wall clock, in minutes
    timer,    \* whether a threading.Timer for the periodic scan is pending
    failed,   \* whether a periodic scan has ended in an exception
    reply,    \* what the latest step sent to the chat, and the request it answers
    procs,    \* handlers in flight, statement by statement (concurrent runs)
    start     \* the table as it was when the handlers in flight were started

vars == <<users, now, timer, failed, reply, procs, start>>

---------------------------------------------------------------------------
(* Program constants (src/main.py:22-27), durations in minutes. *)

INACTIVE_THRESHOLD == 1440
INACTIVE_PERIOD == 1440
MINUTES_REDUCED_PER_MESSAGE == 1
MESSAGES_TO_CLEAR_INACTIVE == 15
PAGE_SIZE == 10

(* Bounds of the model. *)

MaxDays == 2      \* the clock runs over days 1 .. MaxDays, and a last instant
MaxRows == 12     \* the tables of the report runs hold up to MaxRows users

---------------------------------------------------------------------------
(* Nullable values *)

NULL == <<>>
Some(v) == <<v>>
Val(x) == x[1]

\* SQL COALESCE(a, b)
COALESCE(a, b) == IF a # NULL THEN a ELSE b

---------------------------------------------------------------------------
(* Text *)

\* str(n) for n >= 0, as character codes
RECURSIVE Str(_)
Str(n) == IF n < 10 THEN <<48 + n>> ELSE Str(n \div 10) \o <<48 + (n % 10)>>

\* str.lower() on ASCII letters
Lower(s) == [i \in DOMAIN s |-> IF s[i] \in 65..90 THEN s[i] + 32 ELSE s[i]]

\* s < t in Python's ordering of str (by code point, a proper prefix first)
StrLess(s, t) ==
    \E i \in 1..(Len(t)) :
        /\ \A j \in 1..(i - 1) : j <= Len(s) /\ s[j] = t[j]
        /\ i - 1 <= Len(s)
        /\ (i > Len(s) \/ s[i] < t[i])

---------------------------------------------------------------------------
(* The users table (init_db) and the statements run against it.  Each      *)
(* operator takes the table and returns the table after the statement.     *)

\* A freshly inserted row (the INSERT of upsert_user; the columns it does
\* not name take the defaults of the CREATE TABLE of init_db).
NewRow(t, username, first_name, last_name) ==
    [ username |-> username,
      first_name |-> first_name,
      last_name |-> last_name,
      last_active |-> Some(t),
      inactive_until |-> NULL,
      messages_since_inactive |-> 0,
      inactive_marked_at |-> NULL,
      is_bot |-> 0 ]

\* upsert_user, first statement: SELECT user_id ... ; fetchone() is truthy
upsert_select(db, user_id) == user_id \in DOMAIN db

\* upsert_user, second statement: the UPDATE when the SELECT found a row,
\* else the INSERT.  (The UPDATE of a row that is gone changes nothing.)
upsert_write(db, t, exists, user_id, username, first_name, last_name) ==
    IF exists
    THEN IF user_id \in DOMAIN db
         THEN [db EXCEPT ![user_id] =
                 [ db[user_id] EXCEPT
                     !.username = COALESCE(username, @),
                     !.first_name = COALESCE(first_name, @),
                     !.last_name = COALESCE(last_name, @),
                     !.is_bot = Val(COALESCE(Some(0), Some(@))) ]]
         ELSE db
    ELSE [u \in DOMAIN db \cup {user_id} |->
             IF u = user_id THEN NewRow(t, username, first_name, last_name)
             ELSE db[u]]

upsert_user(db, t, user_id, username, first_name, last_name, is_bot) ==
    IF is_bot THEN db
    ELSE upsert_write(db, t, upsert_select(db, user_id),
                      user_id, username, first_name, last_name)

\* Mutant of mark_active_count: inside a window the count goes up by one
mark_active_count_bump(r, t) ==
    IF r.inactive_until # NULL /\ Val(r.inactive_until) > t
    THEN r.messages_since_inactive + 1
    ELSE 0

\* The CASE expression of mark_active's UPDATE
mark_active_count(r, t) ==
    IF r.inactive_until # NULL /\ Val(r.inactive_until) > t
    THEN r.messages_since_inactive
    ELSE 0

mark_active(db, t, user_id) ==
    IF user_id \in DOMAIN db /\ db[user_id].is_bot = 0
    THEN [db EXCEPT ![user_id] =
            [ db[user_id] EXCEPT
                !.last_active = Some(t),
                !.messages_since_inactive = mark_active_count(db[user_id], t) ]]
    ELSE db

\* get_user: the row, or NULL when there is none
get_user(db, user_id) ==
    IF user_id \in DOMAIN db THEN Some(db[user_id]) ELSE NULL

set_inactive(db, t, user_id) ==
    IF user_id \in DOMAIN db /\ db[user_id].is_bot = 0
    THEN [db EXCEPT ![user_id] =
            [ db[user_id] EXCEPT
                !.inactive_until = Some(t + INACTIVE_PERIOD),
                !.inactive_marked_at = Some(t),
                !.messages_since_inactive = 0 ]]
    ELSE db

clear_inactive(db, user_id) ==
    IF user_id \in DOMAIN db /\ db[user_id].is_bot = 0
    THEN [db EXCEPT ![user_id] =
            [ db[user_id] EXCEPT
                !.inactive_until = NULL,
                !.messages_since_inactive = 0,
                !.inactive_marked_at = NULL ]]
    ELSE db

\* reduce_inactive_by_minutes, the SELECT: the (inactive_until,
\* messages_since_inactive) of the non-bot row, or NULL
reduce_select(db, user_id) ==
    IF user_id \in DOMAIN db /\ db[user_id].is_bot = 0
    THEN Some([ inactive_until |-> db[user_id].inactive_until,
                messages_since_inactive |-> db[user_id].messages_since_inactive ])
    ELSE NULL

\* Mutant of reduce_branch: the count must pass the threshold to clear
reduce_branch_late(row, t, minutes) ==
    IF row = NULL THEN "return"
    ELSE IF Val(row).inactive_until = NULL THEN "return"
    ELSE IF \/ Val(row).messages_since_inactive + 1 > MESSAGES_TO_CLEAR_INACTIVE
            \/ Val(Val(row).inactive_until) - minutes <= t
         THEN "clear"
         ELSE "reduce"

\* reduce_inactive_by_minutes, the branch taken on the values read:
\* "return" (no row, or no window), "clear" or "reduce"
reduce_branch(row, t, minutes) ==
    IF row = NULL THEN "return"
    ELSE IF Val(row).inactive_until = NULL THEN "return"
    ELSE IF \/ Val(row).messages_since_inactive + 1 >= MESSAGES_TO_CLEAR_INACTIVE
            \/ Val(Val(row).inactive_until) - minutes <= t
         THEN "clear"
         ELSE "reduce"

\* Mutant of reduce_update: the reduce branch stores the count it read
reduce_update_minutes_only(db, branch, row, user_id, minutes) ==
    IF branch = "return" \/ user_id \notin DOMAIN db THEN db
    ELSE IF db[user_id].is_bot # 0 THEN db
    ELSE IF branch = "clear"
    THEN [db EXCEPT ![user_id] =
            [ db[user_id] EXCEPT
                !.inactive_until = NULL,
                !.messages_since_inactive = 0,
                !.inactive_marked_at = NULL ]]
    ELSE [db EXCEPT ![user_id] =
            [ db[user_id] EXCEPT
                !.inactive_until = Some(Val(Val(row).inactive_until) - minutes),
                !.messages_since_inactive = Val(row).messages_since_inactive ]]

\* reduce_inactive_by_minutes, the UPDATE of the branch, computed from the
\* values read and applied to the table as it is now
reduce_update(db, branch, row, user_id, minutes) ==
    IF branch = "return" \/ user_id \notin DOMAIN db THEN db
    ELSE IF db[user_id].is_bot # 0 THEN db
    ELSE IF branch = "clear"
    THEN [db EXCEPT ![user_id] =
            [ db[user_id] EXCEPT
                !.inactive_until = NULL,
                !.messages_since_inactive = 0,
                !.inactive_marked_at = NULL ]]
    ELSE [db EXCEPT ![user_id] =
            [ db[user_id] EXCEPT
                !.inactive_until = Some(Val(Val(row).inactive_until) - minutes),
                !.messages_since_inactive = Val(row).messages_since_inactive + 1 ]]

reduce_inactive_by_minutes(db, t, user_id, minutes) ==
    LET row == reduce_select(db, user_id)
    IN  reduce_update(db, reduce_branch(row, t, minutes), row, user_id, minutes)

\* The user ids of the table in the order a SELECT returns the rows
\* (rowid order: user_id is the INTEGER PRIMARY KEY)
RECURSIVE SortedIds(_)
SortedIds(S) ==
    IF S = {} THEN <<>>
    ELSE LET m == CHOOSE x \in S : \A y \in S : x <= y
         IN  <<m>> \o SortedIds(S \ {m})

\* all_tracked_users: the six columns of the rows WHERE is_bot = 0
all_tracked_users(db) ==
    LET ids == SortedIds({u \in DOMAIN db : db[u].is_bot = 0})
    IN  [i \in DOMAIN ids |->
            [ user_id |-> ids[i],
              username |-> db[ids[i]].username,
              first_name |-> db[ids[i]].first_name,
              last_name |-> db[ids[i]].last_name,
              last_active |-> db[ids[i]].last_active,
              inactive_until |-> db[ids[i]].inactive_until ]]

---------------------------------------------------------------------------
(* The scan: scan_and_mark_inactive and scan_and_mark_inactive_once run    *)
(* the same SELECT and the same loop of UPDATEs.                           *)

\* The SELECT of the scan: (user_id, last_active, inactive_until) of the
\* non-bot rows
scan_select(db) ==
    LET ids == SortedIds({u \in DOMAIN db : db[u].is_bot = 0})
    IN  [i \in DOMAIN ids |->
            [ user_id |-> ids[i],
              last_active |-> db[ids[i]].last_active,
              inactive_until |-> db[ids[i]].inactive_until ]]

\* Mutant of scan_due: a user silent for exactly the threshold is passed over
scan_due_after(row, t) ==
    /\ row.last_active # NULL
    /\ row.inactive_until = NULL
    /\ t - Val(row.last_active) > INACTIVE_THRESHOLD

\* Mutant of scan_due: a window that has run out counts as no window
scan_due_renews(row, t) ==
    /\ row.last_active # NULL
    /\ (row.inactive_until = NULL \/ Val(row.inactive_until) <= t)
    /\ t - Val(row.last_active) >= INACTIVE_THRESHOLD

\* Whether the loop body reaches the UPDATE for a row read
scan_due(row, t) ==
    /\ row.last_active # NULL
    /\ row.inactive_until = NULL
    /\ t - Val(row.last_active) >= INACTIVE_THRESHOLD

\* The UPDATE of the loop body
scan_update(db, t, user_id) ==
    IF user_id \in DOMAIN db /\ db[user_id].is_bot = 0
    THEN [db EXCEPT ![user_id] =
            [ db[user_id] EXCEPT
                !.inactive_until = Some(t + INACTIVE_PERIOD),
                !.inactive_marked_at = Some(t),
                !.messages_since_inactive = 0 ]]
    ELSE db

\* The loop over the rows read, from row i on: each UPDATE is applied to
\* the table as it is now, WHERE user_id = ? AND is_bot = 0
RECURSIVE scan_loop(_, _, _, _)
scan_loop(db, t, rows, i) ==
    IF i > Len(rows) THEN db
    ELSE scan_loop(IF scan_due(rows[i], t) THEN scan_update(db, t, rows[i].user_id)
                   ELSE db,
                   t, rows, i + 1)

\* Mutant of scan_and_mark_inactive_once: the scan also moves the end of
\* every window it finds a minute on
scan_and_push_once(db, t) ==
    LET after == scan_loop(db, t, scan_select(db), 1)
    IN  [u \in DOMAIN after |->
            IF after[u].is_bot = 0 /\ after[u].inactive_until # NULL
            THEN [after[u] EXCEPT !.inactive_until = Some(Val(@) + 1)]
            ELSE after[u]]

scan_and_mark_inactive_once(db, t) == scan_loop(db, t, scan_select(db), 1)

---------------------------------------------------------------------------
(* The report: counts, filter, sort, text and keyboard.                    *)

\* str.strip() of spaces
RECURSIVE Strip(_)
Strip(s) ==
    IF s = <<>> THEN s
    ELSE IF Head(s) = 32 THEN Strip(Tail(s))
    ELSE IF s[Len(s)] = 32 THEN Strip(SubSeq(s, 1, Len(s) - 1))
    ELSE s

\* Python truthiness of an optional str: neither None nor ""
Truthy(x) == x # NULL /\ Val(x) # <<>>

\* x or "" for an optional str
OrEmpty(x) == IF Truthy(x) THEN Val(x) ELSE <<>>

\* Mutant of is_inactive: a window that has run out still counts
is_inactive_stored(row, t) == row.inactive_until # NULL

\* Whether a row's window is in force at time t (until_dt > now)
is_inactive(row, t) ==
    row.inactive_until # NULL /\ Val(row.inactive_until) > t

format_user_line(row, t) ==
    LET display ==
            IF Truthy(row.username) THEN <<64>> \o Val(row.username)
            ELSE LET d == Strip(OrEmpty(row.first_name) \o
                                (IF Truthy(row.last_name)
                                 THEN <<32>> \o Val(row.last_name) ELSE <<>>))
                 IN  IF d # <<>> THEN d
                     ELSE <<117, 115, 101, 114, 95>> \o Str(row.user_id)
        status ==
            IF row.inactive_until # NULL /\ Val(row.inactive_until) > t
            THEN LET delta == Val(row.inactive_until) - t
                 IN  <<"Inactive", delta \div (24 * 60),
                       (delta % (24 * 60)) \div 60, (delta % 60)>>
            ELSE <<"Active">>
    IN  [ display |-> display, status |-> status ]

RECURSIVE count_loop(_, _, _, _)
count_loop(rows, t, i, acc) ==
    IF i > Len(rows) THEN acc
    ELSE count_loop(rows, t, i + 1,
            IF rows[i].inactive_until # NULL /\ Val(rows[i].inactive_until) > t
            THEN [acc EXCEPT !.inactive = @ + 1, !.total = @ + 1]
            ELSE [acc EXCEPT !.active = @ + 1, !.total = @ + 1])

compute_counts(rows, t) ==
    count_loop(rows, t, 1, [active |-> 0, inactive |-> 0, total |-> 0])

\* The sort keys of filter_and_sort_users
name_key(row) ==
    IF Truthy(row.username) \/ Truthy(row.first_name)
    THEN Lower(IF Truthy(row.username) THEN Val(row.username)
               ELSE OrEmpty(row.first_name))
    ELSE Str(row.user_id)

\* a missing last_active sorts as the epoch, minute 0
last_key(row) == IF row.last_active # NULL THEN Val(row.last_active) ELSE 0

\* The rows the filter keeps, in the order read
RECURSIVE filter_rows(_, _, _)
filter_rows(rows, t, filter_mode) ==
    IF rows = <<>> THEN <<>>
    ELSE LET r == Head(rows)
             skip == \/ (filter_mode = "active" /\ is_inactive(r, t))
                     \/ (filter_mode = "inactive" /\ ~is_inactive(r, t))
         IN  (IF skip THEN <<>> ELSE <<r>>) \o filter_rows(Tail(rows), t, filter_mode)

\* Mutant of name_before: a row also goes before the rows of equal key
name_before_ties(a, b) == ~StrLess(name_key(b), name_key(a))

name_before(a, b) == StrLess(name_key(a), name_key(b))
last_before(a, b) == last_key(a) > last_key(b)

\* Whether a's sort key orders strictly before b's: ascending name_key for
\* sort_mode 'name', else last_key with reverse=True
key_before(a, b, sort_mode) ==
    IF sort_mode = "name" THEN name_before(a, b) ELSE last_before(a, b)

\* list.sort is stable (also with reverse=True): a row goes after every
\* row already placed whose key does not order after its own
RECURSIVE insert_sorted(_, _, _)
insert_sorted(sorted, r, sort_mode) ==
    IF sorted = <<>> THEN <<r>>
    ELSE IF key_before(r, Head(sorted), sort_mode) THEN <<r>> \o sorted
    ELSE <<Head(sorted)>> \o insert_sorted(Tail(sorted), r, sort_mode)

RECURSIVE stable_sort(_, _)
stable_sort(rows, sort_mode) ==
    IF rows = <<>> THEN <<>>
    ELSE insert_sorted(stable_sort(SubSeq(rows, 1, Len(rows) - 1), sort_mode),
                       rows[Len(rows)], sort_mode)

filter_and_sort_users(rows, t, filter_mode, sort_mode) ==
    stable_sort(filter_rows(rows, t, filter_mode), sort_mode)

\* total_pages as the handlers compute it from the filtered list
pages_of(n) == IF n # 0 THEN (n + PAGE_SIZE - 1) \div PAGE_SIZE ELSE 1

\* Mutant of page_slice: the slice stops one row early
page_slice_short(filtered, page) ==
    LET lo == page * PAGE_SIZE + 1
        hi == IF (page + 1) * PAGE_SIZE - 1 < Len(filtered)
              THEN (page + 1) * PAGE_SIZE - 1 ELSE Len(filtered)
    IN  IF lo > hi THEN <<>> ELSE SubSeq(filtered, lo, hi)

\* filtered[page*PAGE_SIZE:(page+1)*PAGE_SIZE] for page >= 0
page_slice(filtered, page) ==
    LET lo == page * PAGE_SIZE + 1
        hi == IF (page + 1) * PAGE_SIZE < Len(filtered)
              THEN (page + 1) * PAGE_SIZE ELSE Len(filtered)
    IN  IF lo > hi THEN <<>> ELSE SubSeq(filtered, lo, hi)

build_attendance_text(paged_rows, active_count, inactive_count, total_count, page, page_size, filter_mode, sort_mode, t) ==
    LET total_pages == IF total_count # 0
                       THEN (total_count + page_size - 1) \div page_size
                       ELSE 1
        lines == [i \in DOMAIN paged_rows |-> format_user_line(paged_rows[i], t)]
    IN  [ filter_label |-> filter_mode,
          sort_label |-> IF sort_mode = "name" THEN "name" ELSE "last active",
          active |-> active_count,
          inactive |-> inactive_count,
          total |-> total_count,
          page_shown |-> page + 1,
          total_pages |-> total_pages,
          body |-> IF lines = <<>> THEN <<"(no users to show on this page)">>
                   ELSE lines ]

\* str(n) of any integer
IntStr(n) == IF n < 0 THEN <<45>> \o Str(0 - n) ELSE Str(n)

\* The callback data f"ATT|{page}|{filter_mode}|{sort_mode}", held as the
\* sequence of its "|"-separated fields
callback_data(page, filter_mode, sort_mode) ==
    <<"ATT", IntStr(page), filter_mode, sort_mode>>

\* Mutant of build_inline_keyboard: Next is offered on the last page too
build_inline_keyboard_next_past(page, total_pages, filter_mode, sort_mode) ==
    LET prev == IF page > 0
                THEN <<[text |-> "Prev",
                        data |-> callback_data(page - 1, filter_mode, sort_mode)]>>
                ELSE <<>>
        next == IF page < total_pages
                THEN <<[text |-> "Next",
                        data |-> callback_data(page + 1, filter_mode, sort_mode)]>>
                ELSE <<>>
        nav_buttons == prev \o next
    IN  (IF nav_buttons # <<>> THEN <<nav_buttons>> ELSE <<>>) \o
        << << [text |-> "All", data |-> callback_data(page, "all", sort_mode)],
              [text |-> "Active", data |-> callback_data(page, "active", sort_mode)],
              [text |-> "Inactive", data |-> callback_data(page, "inactive", sort_mode)] >>,
           << [text |-> "Sort: Name", data |-> callback_data(page, filter_mode, "name")],
              [text |-> "Sort: Last active",
               data |-> callback_data(page, filter_mode, "last")] >> >>

build_inline_keyboard(page, total_pages, filter_mode, sort_mode) ==
    LET prev == IF page > 0
                THEN <<[text |-> "Prev",
                        data |-> callback_data(page - 1, filter_mode, sort_mode)]>>
                ELSE <<>>
        next == IF page < total_pages - 1
                THEN <<[text |-> "Next",
                        data |-> callback_data(page + 1, filter_mode, sort_mode)]>>
                ELSE <<>>
        nav_buttons == prev \o next
    IN  (IF nav_buttons # <<>> THEN <<nav_buttons>> ELSE <<>>) \o
        << << [text |-> "All", data |-> callback_data(page, "all", sort_mode)],
              [text |-> "Active", data |-> callback_data(page, "active", sort_mode)],
              [text |-> "Inactive", data |-> callback_data(page, "inactive", sort_mode)] >>,
           << [text |-> "Sort: Name", data |-> callback_data(page, filter_mode, "name")],
              [text |-> "Sort: Last active",
               data |-> callback_data(page, filter_mode, "last")] >> >>

---------------------------------------------------------------------------
(* Decoding a callback: cq.data.split("|"), the unpacking into four names  *)
(* and int(page_s).                                                        *)

IsDigits(s) == s # <<>> /\ \A i \in DOMAIN s : s[i] \in 48..57

RECURSIVE DigitsVal(_)
DigitsVal(s) ==
    IF s = <<>> THEN 0
    ELSE 10 * DigitsVal(SubSeq(s, 1, Len(s) - 1)) + (s[Len(s)] - 48)

\* Whether int(s) returns: a run of digits, with an optional sign
int_ok(s) ==
    \/ IsDigits(s)
    \/ (Len(s) >= 2 /\ s[1] \in {43, 45} /\ IsDigits(Tail(s)))

int_of(s) ==
    IF IsDigits(s) THEN DigitsVal(s)
    ELSE IF s[1] = 45 THEN 0 - DigitsVal(Tail(s))
    ELSE DigitsVal(Tail(s))

\* Mutant of decode_ok: int(page_s) is not part of the try block
decode_ok_any_page(data) == Len(data) = 4

\* The try block of handle_attendance_callback: whether it ends without
\* an exception
decode_ok(data) == Len(data) = 4 /\ int_ok(data[2])

---------------------------------------------------------------------------
(* The handlers, each run from start to end on the table db at time t.     *)

GroupChats == {"group", "supergroup"}

\* handle_all_messages; u is message.from_user (NULL for None)
handle_all_messages(db, t, chat_type, u) ==
    IF chat_type \notin GroupChats THEN db
    ELSE IF u = NULL THEN db
    ELSE LET user == Val(u)
             db1 == upsert_user(db, t, user.id, user.username, user.first_name,
                                user.last_name, user.is_bot)
         IN  IF user.is_bot THEN db1
             ELSE LET db2 == mark_active(db1, t, user.id)
                      row == get_user(db2, user.id)
                  IN  IF row # NULL /\ Val(row).inactive_until # NULL
                      THEN reduce_inactive_by_minutes(db2, t, user.id,
                                                      MINUTES_REDUCED_PER_MESSAGE)
                      ELSE db2

\* handle_new_members, the loop over message.new_chat_members from i on
RECURSIVE handle_new_members(_, _, _, _)
handle_new_members(db, t, members, i) ==
    IF i > Len(members) THEN db
    ELSE LET m == members[i]
             db1 == upsert_user(db, t, m.id, m.username, m.first_name,
                                m.last_name, m.is_bot)
         IN  handle_new_members(IF m.is_bot THEN db1 ELSE mark_active(db1, t, m.id),
                                t, members, i + 1)

\* handle_left_member; left is message.left_chat_member (NULL for None)
handle_left_member(db, t, left) ==
    IF left = NULL THEN db
    ELSE upsert_user(db, t, Val(left).id, Val(left).username,
                     Val(left).first_name, Val(left).last_name, Val(left).is_bot)

\* Mutant of clamp_page: the upper limit is total_pages
clamp_page_past_last(page, total_pages) ==
    LET upper == IF page < total_pages THEN page ELSE total_pages
    IN  IF upper > 0 THEN upper ELSE 0

\* page = max(0, min(page, total_pages - 1))
clamp_page(page, total_pages) ==
    LET upper == IF page < total_pages - 1 THEN page ELSE total_pages - 1
    IN  IF upper > 0 THEN upper ELSE 0

\* The report of handle_attendance (clamp = FALSE, page 0) and of
\* handle_attendance_callback (clamp = TRUE) on the table after the scan:
\* the text and the keyboard sent, and the page, total_pages and paged
\* rows they were built from
attendance_report(db, t, page_req, filter_mode, sort_mode, clamp) ==
    LET rows == all_tracked_users(db)
        counts == compute_counts(rows, t)
        filtered == filter_and_sort_users(rows, t, filter_mode, sort_mode)
        total_filtered == Len(filtered)
        total_pages == pages_of(total_filtered)
        page == IF clamp THEN clamp_page(page_req, total_pages) ELSE page_req
        paged == page_slice(filtered, page)
    IN  [ text |-> build_attendance_text(paged, counts.active, counts.inactive,
                                         counts.total, page, PAGE_SIZE,
                                         filter_mode, sort_mode, t),
          kb |-> build_inline_keyboard(page, total_pages, filter_mode, sort_mode),
          page |-> page,
          total_pages |-> total_pages,
          paged |-> paged ]

---------------------------------------------------------------------------
(* Inputs of the model *)

\* The instants at which the model lets events arrive: the start of each
\* day, and the two instants of a day from which a window opened at the
\* start of the day before, and reduced by 13 or 14 messages, is two
\* minutes and one minute away from its end.
Offsets ==
    { 0,
      INACTIVE_PERIOD - MESSAGES_TO_CLEAR_INACTIVE - 1,
      INACTIVE_PERIOD - MESSAGES_TO_CLEAR_INACTIVE + 1 }

Instants ==
    { d * (24 * 60) + m : d \in 1..MaxDays, m \in Offsets }
    \cup { (MaxDays + 1) * (24 * 60) }

FirstInstant == 24 * 60

\* The users of the chat: all of them join and leave; the ones of
\* SenderIds also send messages.
UserIds == {1, 2}
SenderIds == {1}

\* The names the platform reports for a user id
Account(id) ==
    CASE id % 4 = 1 -> [ username |-> Some(<<66, 111>>),          \* "Bo"
                         first_name |-> Some(<<65, 108>>),        \* "Al"
                         last_name |-> NULL ]
      [] id % 4 = 2 -> [ username |-> NULL,
                         first_name |-> Some(<<97, 108>>),        \* "al"
                         last_name |-> Some(<<66, 111>>) ]
      [] id % 4 = 3 -> [ username |-> NULL,
                         first_name |-> NULL,
                         last_name |-> NULL ]
      [] OTHER      -> [ username |-> NULL,
                         first_name |-> Some(<<65, 108>>),
                         last_name |-> NULL ]

\* A telebot User object as an event carries it; a user may have dropped
\* the username the account once had
TgUser(id, is_bot, with_username) ==
    [ id |-> id,
      username |-> IF with_username THEN Account(id).username ELSE NULL,
      first_name |-> Account(id).first_name,
      last_name |-> Account(id).last_name,
      is_bot |-> is_bot ]

\* The users that join or leave, and the users that send messages
Members == { TgUser(id, b, TRUE) : id \in UserIds, b \in BOOLEAN }
Senders ==
    { TgUser(id, b, TRUE) : id \in SenderIds, b \in BOOLEAN }
    \cup { TgUser(id, FALSE, FALSE) : id \in SenderIds }

\* The messages: in a group from every sender and from no user, and one
\* in a private chat
Messages ==
    { [chat_type |-> "group", from_user |-> u] : u \in {NULL} \cup {Some(x) : x \in Senders} }
    \cup { [chat_type |-> "private", from_user |-> Some(x)] : x \in {TgUser(1, FALSE, TRUE)} }

\* The lists of new_chat_members: one user, or two different users
MemberLists ==
    { <<a>> : a \in Members }
    \cup { <<p[1], p[2]>> : p \in {q \in Members \X Members : q[1].id < q[2].id} }

ChatTypes == {"group", "private"}

NoReply == [ kind |-> "none" ]

EmptyTable == [u \in {} |-> NULL]

\* A table that holds a row flagged is_bot = 1 for user id 1
LegacyTable ==
    [u \in {1} |->
        [ username |-> Account(1).username,
          first_name |-> Account(1).first_name,
          last_name |-> Account(1).last_name,
          last_active |-> Some(FirstInstant),
          inactive_until |-> NULL,
          messages_since_inactive |-> 0,
          inactive_marked_at |-> NULL,
          is_bot |-> 1 ]]

NoProcs == [p \in {} |-> NULL]

\* What is recorded when handlers start to overlap: the table and the time
\* at the start, and the handlers begun since
NoStart == [ users |-> EmptyTable, now |-> 0, msgs |-> 0, scans |-> 0, runs |-> 0 ]

---------------------------------------------------------------------------
(* The state machine with one handler running at a time *)

Init ==
    /\ users \in {EmptyTable, LegacyTable}
    /\ now = FirstInstant
    /\ timer = TRUE
    /\ failed = FALSE
    /\ reply = NoReply
    /\ procs = NoProcs
    /\ start = NoStart

\* Time passes
Tick ==
    /\ \E t \in Instants : t > now /\ now' = t
    /\ reply' = NoReply
    /\ UNCHANGED <<users, timer, failed, procs, start>>

HandleAllMessages ==
    /\ \E m \in Messages :
          users' = handle_all_messages(users, now, m.chat_type, m.from_user)
    /\ reply' = NoReply
    /\ UNCHANGED <<now, timer, failed, procs, start>>

HandleNewMembers ==
    /\ \E members \in MemberLists :
          users' = handle_new_members(users, now, members, 1)
    /\ reply' = NoReply
    /\ UNCHANGED <<now, timer, failed, procs, start>>

HandleLeftMember ==
    /\ \E left \in {NULL} \cup {Some(x) : x \in Members} :
          users' = handle_left_member(users, now, left)
    /\ reply' = NoReply
    /\ UNCHANGED <<now, timer, failed, procs, start>>

\* The pending Timer fires: scan_and_mark_inactive runs and starts the
\* next Timer
ScanAndMarkInactive ==
    /\ timer
    /\ users' = scan_and_mark_inactive_once(users, now)
    /\ timer' = TRUE
    /\ reply' = NoReply
    /\ UNCHANGED <<now, failed, procs, start>>

HandleAttendance ==
    /\ \E chat_type \in ChatTypes :
          IF chat_type \notin GroupChats
          THEN /\ reply' = [ kind |-> "text",
                             text |-> "Please use /attendance inside a group or supergroup." ]
               /\ users' = users
          ELSE LET db == scan_and_mark_inactive_once(users, now)
                   r == attendance_report(db, now, 0, "all", "name", FALSE)
               IN  /\ users' = db
                   /\ reply' = [ kind |-> "reply", text |-> r.text, kb |-> r.kb,
                                 request |-> callback_data(0, "all", "name") ]
    /\ UNCHANGED <<now, timer, failed, procs, start>>

\* handle_attendance_callback on cq.data; edit_ok says whether the
\* transport accepts edit_message_text
handle_attendance_callback(data, edit_ok) ==
    /\ Len(data) >= 2 /\ data[1] = "ATT"
    /\ IF ~decode_ok(data)
       THEN /\ reply' = [ kind |-> "answer", text |-> "Invalid callback data.",
                          request |-> data ]
            /\ users' = users
       ELSE LET db == scan_and_mark_inactive_once(users, now)
                r == attendance_report(db, now, int_of(data[2]), data[3], data[4], TRUE)
            IN  /\ users' = db
                /\ reply' = [ kind |-> IF edit_ok THEN "edit" ELSE "send",
                              text |-> r.text, kb |-> r.kb, request |-> data ]
    /\ UNCHANGED <<now, timer, failed, procs, start>>

\* The callbacks the model sends where the table holds a few rows
FewCallbacks ==
    { callback_data(1, "inactive", "last"), <<"ATT", <<120>>, "all", "name">> }

HandleAttendanceCallback ==
    \E data \in FewCallbacks : handle_attendance_callback(data, TRUE)

Next ==
    \/ Tick
    \/ HandleAllMessages
    \/ HandleNewMembers
    \/ HandleLeftMember
    \/ ScanAndMarkInactive
    \/ HandleAttendance
    \/ HandleAttendanceCallback

Spec == Init /\ [][Next]_vars

---------------------------------------------------------------------------
(* The Timer thread when the store raises: scan_and_mark_inactive has no   *)
(* try/except, so an sqlite3 error in connect, SELECT, UPDATE or commit    *)
(* leaves the function before its last line, where the next Timer is       *)
(* started.  Nothing is committed.                                         *)

ScanAndMarkInactiveFails ==
    /\ timer
    /\ timer' = FALSE
    /\ failed' = TRUE
    /\ reply' = NoReply
    /\ UNCHANGED <<users, now, procs, start>>

NextTimer == Next \/ ScanAndMarkInactiveFails

SpecTimer == Init /\ [][NextTimer]_vars

---------------------------------------------------------------------------
(* Handlers that overlap.  telebot runs each handler on a worker thread    *)
(* and the Timer runs the scan on its own thread; every function opens its *)
(* own connection, a SELECT is not part of the write that follows it, and  *)
(* a write (the UPDATEs up to the commit) is one step.  Each slot of procs *)
(* is one thread: pc is the statement it executes next, the other fields   *)
(* are the locals of the function it is in.                                *)

MaxProcs == 2
MaxRuns == 4

Slots == 1..MaxProcs

\* The user whose group messages the overlapping handlers serve
Sender == TgUser(1, FALSE, TRUE)

Idle ==
    [ pc |-> "idle", t |-> 0, exists |-> FALSE, row |-> NULL,
      branch |-> "return", rows |-> <<>> ]

At(p, pc) == procs[p].pc = pc

Goto(p, pc) == [procs EXCEPT ![p] = [Idle EXCEPT !.pc = pc]]

AllIdle == \A p \in Slots : At(p, "idle")

\* The instants of the overlapping runs: the first message, 24h later, and
\* the last two minutes of a window that began then
ConcInstants ==
    { FirstInstant,
      FirstInstant + INACTIVE_THRESHOLD,
      FirstInstant + INACTIVE_THRESHOLD + INACTIVE_PERIOD - 2,
      FirstInstant + INACTIVE_THRESHOLD + INACTIVE_PERIOD - 1 }

InitConc ==
    /\ users = EmptyTable
    /\ now = FirstInstant
    /\ timer = TRUE
    /\ failed = FALSE
    /\ reply = NoReply
    /\ procs = [p \in Slots |-> Idle]
    /\ start = NoStart

\* What start becomes when a handler begins
Begun(msgs, scans) ==
    IF AllIdle
    THEN [ users |-> users, now |-> now, msgs |-> msgs, scans |-> scans,
           runs |-> start.runs + 1 ]
    ELSE [ start EXCEPT !.msgs = @ + msgs, !.scans = @ + scans, !.runs = @ + 1 ]

\* Time passes: by a minute while handlers run, by any span between them
TickConc ==
    /\ \E t \in ConcInstants :
          /\ t > now
          /\ AllIdle \/ t = now + 1
          /\ now' = t
    /\ UNCHANGED <<users, timer, failed, reply, procs, start>>

\* handle_all_messages is called with a group message of Sender
BeginMessage ==
    \E p \in Slots :
        /\ At(p, "idle")
        /\ start.runs < MaxRuns
        /\ procs' = Goto(p, "upsert_select")
        /\ start' = Begun(1, 0)
        /\ UNCHANGED <<users, now, timer, failed, reply>>

\* upsert_user: now is read, then the SELECT
UpsertSelect ==
    \E p \in Slots :
        /\ At(p, "upsert_select")
        /\ procs' = [procs EXCEPT ![p] =
                        [Idle EXCEPT !.pc = "upsert_write", !.t = now,
                                     !.exists = upsert_select(users, Sender.id)]]
        /\ UNCHANGED <<users, now, timer, failed, reply, start>>

\* upsert_user: the UPDATE or the INSERT, and the commit.  The INSERT of a
\* user_id that is in the table by now raises and ends the handler.
UpsertWrite ==
    \E p \in Slots :
        /\ At(p, "upsert_write")
        /\ IF ~procs[p].exists /\ Sender.id \in DOMAIN users
           THEN /\ users' = users
                /\ procs' = Goto(p, "idle")
           ELSE /\ users' = upsert_write(users, procs[p].t, procs[p].exists, Sender.id,
                                         Sender.username, Sender.first_name,
                                         Sender.last_name)
                /\ procs' = Goto(p, "mark_active")
        /\ UNCHANGED <<now, timer, failed, reply, start>>

MarkActive ==
    \E p \in Slots :
        /\ At(p, "mark_active")
        /\ users' = mark_active(users, now, Sender.id)
        /\ procs' = Goto(p, "get_user")
        /\ UNCHANGED <<now, timer, failed, reply, start>>

\* get_user and the test of handle_all_messages on its row
GetUser ==
    \E p \in Slots :
        /\ At(p, "get_user")
        /\ LET row == get_user(users, Sender.id)
           IN  procs' = IF row # NULL /\ Val(row).inactive_until # NULL
                        THEN Goto(p, "reduce_select")
                        ELSE Goto(p, "idle")
        /\ UNCHANGED <<users, now, timer, failed, reply, start>>

\* reduce_inactive_by_minutes: the SELECT
ReduceSelect ==
    \E p \in Slots :
        /\ At(p, "reduce_select")
        /\ procs' = [procs EXCEPT ![p] =
                        [Idle EXCEPT !.pc = "reduce_branch",
                                     !.row = reduce_select(users, Sender.id)]]
        /\ UNCHANGED <<users, now, timer, failed, reply, start>>

\* reduce_inactive_by_minutes: the early returns and the test that reads
\* the clock
ReduceBranch ==
    \E p \in Slots :
        /\ At(p, "reduce_branch")
        /\ LET branch == reduce_branch(procs[p].row, now, MINUTES_REDUCED_PER_MESSAGE)
           IN  procs' = IF branch = "return" THEN Goto(p, "idle")
                        ELSE [procs EXCEPT ![p].pc = "reduce_update",
                                           ![p].branch = branch]
        /\ UNCHANGED <<users, now, timer, failed, reply, start>>

\* reduce_inactive_by_minutes: the UPDATE of the branch taken, and the commit
ReduceUpdate ==
    \E p \in Slots :
        /\ At(p, "reduce_update")
        /\ users' = reduce_update(users, procs[p].branch, procs[p].row, Sender.id,
                                  MINUTES_REDUCED_PER_MESSAGE)
        /\ procs' = Goto(p, "idle")
        /\ UNCHANGED <<now, timer, failed, reply, start>>

\* A scan begins (the Timer fires, or a report is asked for): now is read
BeginScan ==
    \E p \in Slots :
        /\ At(p, "idle")
        /\ start.runs < MaxRuns
        /\ procs' = [procs EXCEPT ![p] = [Idle EXCEPT !.pc = "scan_select", !.t = now]]
        /\ start' = Begun(0, 1)
        /\ UNCHANGED <<users, now, timer, failed, reply>>

ScanSelect ==
    \E p \in Slots :
        /\ At(p, "scan_select")
        /\ procs' = [procs EXCEPT ![p].pc = "scan_update",
                                  ![p].rows = scan_select(users)]
        /\ UNCHANGED <<users, now, timer, failed, reply, start>>

\* The loop of UPDATEs over the rows read, and the commit
ScanUpdate ==
    \E p \in Slots :
        /\ At(p, "scan_update")
        /\ users' = scan_loop(users, procs[p].t, procs[p].rows, 1)
        /\ procs' = Goto(p, "idle")
        /\ UNCHANGED <<now, timer, failed, reply, start>>

NextConc ==
    \/ TickConc
    \/ BeginMessage
    \/ UpsertSelect
    \/ UpsertWrite
    \/ MarkActive
    \/ GetUser
    \/ ReduceSelect
    \/ ReduceBranch
    \/ ReduceUpdate
    \/ BeginScan
    \/ ScanSelect
    \/ ScanUpdate

SpecConc == InitConc /\ [][NextConc]_vars

---------------------------------------------------------------------------
(* Claims about the handlers run one at a time (Spec) *)

\* The group messages of users that are not bots
HumanMessages ==
    { m \in Messages : /\ m.chat_type \in GroupChats
                       /\ m.from_user # NULL
                       /\ ~Val(m.from_user).is_bot }

(* C1: a group message from a non-bot user whose row holds a window        *)
(* (inactive_until set) with count c clears the window, its start and the  *)
(* count when c + 1 >= 15 or inactive_until - 1 minute <= now; otherwise   *)
(* it takes one minute off inactive_until, stores c + 1 and leaves         *)
(* inactive_marked_at as it was.                                           *)
C1_MessageReducesOrClears ==
    \A m \in HumanMessages :
        LET id == Val(m.from_user).id
        IN  (id \in DOMAIN users /\ users[id].inactive_until # NULL) =>
                LET r == users[id]
                    c == r.messages_since_inactive
                    until == Val(r.inactive_until)
                    after == handle_all_messages(users, now, m.chat_type, m.from_user)[id]
                IN  IF c + 1 >= 15 \/ until - 1 <= now
                    THEN /\ after.inactive_until = NULL
                         /\ after.inactive_marked_at = NULL
                         /\ after.messages_since_inactive = 0
                    ELSE /\ after.inactive_until = Some(until - 1)
                         /\ after.messages_since_inactive = c + 1
                         /\ after.inactive_marked_at = r.inactive_marked_at

\* A row with inactive_until = now + 2 minutes and count 14, which one more
\* message clears
C1_Witness ==
    \E m \in HumanMessages :
        LET id == Val(m.from_user).id
        IN  /\ id \in DOMAIN users
            /\ users[id].inactive_until = Some(now + 2)
            /\ users[id].messages_since_inactive = 14
            /\ handle_all_messages(users, now, m.chat_type, m.from_user)[id].inactive_until = NULL

(* C2: a scan changes exactly the non-bot rows with last_active set, no    *)
(* inactive_until and now - last_active >= 24h: each gets inactive_until   *)
(* = now + 24h, inactive_marked_at = now and count 0; every other row, and *)
(* every last_active, is as before.                                        *)
C2_ScanMarksExactlyTheDue ==
    LET after == scan_and_mark_inactive_once(users, now)
    IN  /\ DOMAIN after = DOMAIN users
        /\ \A u \in DOMAIN users :
              LET r == users[u]
              IN  IF /\ r.is_bot = 0
                     /\ r.last_active # NULL
                     /\ r.inactive_until = NULL
                     /\ now - Val(r.last_active) >= 24 * 60
                  THEN after[u] = [r EXCEPT !.inactive_until = Some(now + 24 * 60),
                                            !.inactive_marked_at = Some(now),
                                            !.messages_since_inactive = 0]
                  ELSE after[u] = r

\* A scan has just marked a user silent for exactly 24h and passed over a
\* user active less than 24h ago
C2_Witness ==
    /\ \E u \in DOMAIN users :
          /\ users[u].inactive_marked_at = Some(now)
          /\ users[u].inactive_until = Some(now + 24 * 60)
          /\ users[u].last_active = Some(now - 24 * 60)
    /\ \E v \in DOMAIN users :
          /\ users[v].is_bot = 0
          /\ users[v].inactive_until = NULL
          /\ now - Val(users[v].last_active) < 24 * 60
          /\ now - Val(users[v].last_active) > 0

(* C5: an event whose actor is a bot creates no row and changes no field   *)
(* of any row; a row stored with is_bot = 1 is not in the report snapshot  *)
(* nor counted, and neither the scan nor a message changes it.             *)
C5_BotsAreNeverTrackedOrModified ==
    /\ \A m \in Messages :
          (m.from_user # NULL /\ Val(m.from_user).is_bot) =>
              handle_all_messages(users, now, m.chat_type, m.from_user) = users
    /\ \A l \in MemberLists :
          (\A i \in DOMAIN l : l[i].is_bot) => handle_new_members(users, now, l, 1) = users
    /\ \A x \in Members :
          x.is_bot => handle_left_member(users, now, Some(x)) = users
    /\ \A u \in DOMAIN users :
          users[u].is_bot = 1 =>
              /\ \A i \in DOMAIN all_tracked_users(users) :
                    all_tracked_users(users)[i].user_id # u
              /\ compute_counts(all_tracked_users(users), now).total
                    = Cardinality({ v \in DOMAIN users : users[v].is_bot = 0 })
              /\ scan_and_mark_inactive_once(users, now)[u] = users[u]
              /\ \A m \in Messages :
                    (m.from_user # NULL /\ Val(m.from_user).id = u) =>
                        handle_all_messages(users, now, m.chat_type, m.from_user)[u] = users[u]

(* C6: after a firing of the Timer in which the store raised, a next      *)
(* firing is still scheduled.                                              *)
C6_FailedScanIsRescheduled == failed => timer

---------------------------------------------------------------------------
(* Claims about handlers that overlap (SpecConc) *)

(* C3: in every state of the table, whatever the interleaving of the       *)
(* handlers and scans, each row has inactive_until and inactive_marked_at  *)
(* both NULL or both set.                                                  *)
C3_WindowFieldsBothOrNeither ==
    \A u \in DOMAIN users :
        (users[u].inactive_until = NULL) <=> (users[u].inactive_marked_at = NULL)

(* C4: when two message handlers of one user overlapped on a row that held *)
(* a window, and both have ended, the row is what the two handlers run one *)
(* after the other leave: no count and no minute is lost.                  *)
C4_OverlappingMessagesSerialize ==
    ( /\ AllIdle
      /\ start.msgs = 2
      /\ start.scans = 0
      /\ start.now = now
      /\ Sender.id \in DOMAIN start.users
      /\ start.users[Sender.id].inactive_until # NULL )
    => users[Sender.id]
         = handle_all_messages(
               handle_all_messages(start.users, now, "group", Some(Sender)),
               now, "group", Some(Sender))[Sender.id]

---------------------------------------------------------------------------
(* Report runs: the report handlers on tables of up to MaxRows users.      *)

LastInstant == (MaxDays + 1) * (24 * 60)

\* The row of user id in a report table.  The first `inforce` users hold a
\* window that is in force, reduced by id % 15 messages; of the others,
\* every third holds a window that has run out, and the rest hold none:
\* they were active in the last three hours, or (every fourth) a day ago.
ReportRow(id, inforce) ==
    LET k == id % MESSAGES_TO_CLEAR_INACTIVE
        kind == IF id <= inforce THEN "inforce"
                ELSE IF id % 3 = 0 THEN "elapsed" ELSE "none"
        marked == IF kind = "inforce" THEN LastInstant - 600 ELSE LastInstant - 2000
    IN  [ username |-> Account(id).username,
          first_name |-> Account(id).first_name,
          last_name |-> Account(id).last_name,
          last_active |->
              IF kind = "elapsed" THEN Some(LastInstant - 1000 - (id % 4))
              ELSE IF kind = "none" /\ id % 4 = 3
                   THEN Some(LastInstant - INACTIVE_THRESHOLD)
              ELSE Some(LastInstant - 60 * (id % 4)),
          inactive_until |->
              IF kind = "none" THEN NULL
              ELSE Some(marked + INACTIVE_PERIOD - k * MINUTES_REDUCED_PER_MESSAGE),
          messages_since_inactive |-> IF kind = "none" THEN 0 ELSE k,
          inactive_marked_at |-> IF kind = "none" THEN NULL ELSE Some(marked),
          is_bot |-> 0 ]

\* A table of n users; when n is even it holds one more row, flagged
\* is_bot = 1
ReportTable(n, inforce) ==
    [id \in 1..(IF n % 2 = 0 THEN n + 1 ELSE n) |->
        IF id <= n THEN ReportRow(id, inforce)
        ELSE [ReportRow(id, id) EXCEPT !.is_bot = 1]]

InitReport ==
    /\ \E n \in 0..MaxRows : \E inforce \in 0..n :
          users = ReportTable(n, inforce)
    /\ now = LastInstant
    /\ timer = TRUE
    /\ failed = FALSE
    /\ reply = NoReply
    /\ procs = NoProcs
    /\ start = NoStart

\* The callbacks of the report runs: every page from one before the first
\* to one past the last, the filters and sorts of the keyboard and one
\* other, and data that does not decode
ManyCallbacks ==
    { callback_data(p, f, s) :
        p \in -1..((MaxRows + PAGE_SIZE - 1) \div PAGE_SIZE),
        f \in {"all", "active", "inactive"}, s \in {"name", "last"} }
    \cup { callback_data(0, "bogus", "name"), callback_data(0, "all", "bogus"),
           <<"ATT", <<120>>, "all", "name">>,
           <<"ATT", <<48>>, "all">>,
           <<"ATT", <<48>>, "all", "name", "x">> }

\* The transport refuses the edit of some of them
HandleNavigation ==
    \E data \in ManyCallbacks :
        \E edit_ok \in (IF data \in FewCallbacks THEN BOOLEAN ELSE {TRUE}) :
            handle_attendance_callback(data, edit_ok)

NextReport ==
    \/ HandleAttendance
    \/ HandleNavigation

SpecReport == InitReport /\ [][NextReport]_vars

---------------------------------------------------------------------------
(* What the claims about the report are stated with *)

IsReport(r) == r.kind \in {"reply", "edit", "send"}

\* The users a report tracks, and those a filter keeps, at the time of the
\* state
Tracked == { u \in DOMAIN users : users[u].is_bot = 0 }

InForce(u) ==
    users[u].inactive_until # NULL /\ Val(users[u].inactive_until) > now

Kept(f) ==
    { u \in Tracked : /\ (f = "active" => ~InForce(u))
                      /\ (f = "inactive" => InForce(u)) }

\* max(1, ceil(n / PAGE_SIZE))
PagesFor(n) ==
    IF n = 0 THEN 1
    ELSE CHOOSE q \in 1..n : (q - 1) * PAGE_SIZE < n /\ n <= q * PAGE_SIZE

Range(seq) == { seq[i] : i \in DOMAIN seq }

RECURSIVE Concat(_, _, _)
\* f[from] \o ... \o f[to]
Concat(f, from, to) ==
    IF from > to THEN <<>> ELSE f[from] \o Concat(f, from + 1, to)

ReportFilters == {"all", "active", "inactive"}
ReportSorts == {"name", "last"}

(* C7: in every report sent, the Y of the header line "Page X / Y" is      *)
(* max(1, ceil(filtered_count / 10)) of the list the filter keeps, and     *)
(* 1 <= X <= Y.                                                            *)
C7_HeaderTotalIsFilteredTotal ==
    IsReport(reply) =>
        /\ reply.text.total_pages = PagesFor(Cardinality(Kept(reply.request[3])))
        /\ 1 <= reply.text.page_shown
        /\ reply.text.page_shown <= reply.text.total_pages

(* C8: a callback with integer page p is answered with the report of page  *)
(* max(0, min(p, total_pages - 1)), never with the error; with no tracked  *)
(* user the report shows 0/0/0, one page and the placeholder.              *)
C8_NavigationClampsPage ==
    /\ reply.kind \in {"edit", "send"} =>
          LET p == int_of(reply.request[2])
              n == Cardinality(Kept(reply.request[3]))
              last == PagesFor(n) - 1
              page == IF p > last THEN last ELSE IF p < 0 THEN 0 ELSE p
              left == n - page * PAGE_SIZE
          IN  /\ reply.text.page_shown = page + 1
              /\ Len(reply.text.body) =
                    IF left = 0 THEN 1 ELSE IF left < PAGE_SIZE THEN left ELSE PAGE_SIZE
    /\ reply.kind = "answer" =>
          reply.request \notin
              { callback_data(p, f, s) : p \in -1..((MaxRows + PAGE_SIZE - 1) \div PAGE_SIZE),
                    f \in ReportFilters \cup {"bogus"}, s \in ReportSorts \cup {"bogus"} }
    /\ (IsReport(reply) /\ Tracked = {}) =>
          /\ reply.text.active = 0 /\ reply.text.inactive = 0 /\ reply.text.total = 0
          /\ reply.text.total_pages = 1
          /\ reply.text.page_shown = 1
          /\ reply.text.body = <<"(no users to show on this page)">>

\* A callback for the page past the last of two pages was answered with
\* the last page
C8_Witness ==
    /\ reply.kind = "edit"
    /\ int_of(reply.request[2]) = 2
    /\ Cardinality(Kept(reply.request[3])) > PAGE_SIZE
    /\ reply.text.page_shown = 2

(* C9: at the time of a state, the rows filter 'active' keeps and the rows *)
(* filter 'inactive' keeps are disjoint and together those of 'all'; their *)
(* numbers are active_count and inactive_count, which sum to total_count;  *)
(* a row is kept by 'inactive' iff its inactive_until is set and later     *)
(* than now.                                                               *)
C9_FilterPartitionsSnapshot ==
    \A s \in ReportSorts :
        LET rows == all_tracked_users(users)
            c == compute_counts(rows, now)
            A == filter_and_sort_users(rows, now, "active", s)
            I == filter_and_sort_users(rows, now, "inactive", s)
            All == filter_and_sort_users(rows, now, "all", s)
        IN  /\ Range(A) \cap Range(I) = {}
            /\ Range(A) \cup Range(I) = Range(All)
            /\ Cardinality(Range(A)) = Len(A)
            /\ Cardinality(Range(I)) = Len(I)
            /\ Cardinality(Range(All)) = Len(All)
            /\ Len(A) = c.active
            /\ Len(I) = c.inactive
            /\ c.active + c.inactive = c.total
            /\ \A i \in DOMAIN rows :
                  rows[i] \in Range(I) <=>
                      (rows[i].inactive_until # NULL /\ Val(rows[i].inactive_until) > now)

\* A report was sent of a table with a window in force, a window that has
\* run out and a user with none
C9_Witness ==
    /\ IsReport(reply)
    /\ reply.text.inactive > 0
    /\ \E u \in Tracked : users[u].inactive_until # NULL /\ ~InForce(u)
    /\ \E u \in Tracked : users[u].inactive_until = NULL

(* C10: for the table of a state and every filter and sort, the pages      *)
(* 0 .. total_pages-1 of the report, in page order, make up the filtered,  *)
(* sorted list: every kept user is on exactly one page, and every page but *)
(* the last holds 10 rows.                                                 *)
C10_PagesMakeUpTheList ==
    \A f \in ReportFilters, s \in ReportSorts :
        LET db == scan_and_mark_inactive_once(users, now)
            full == filter_and_sort_users(all_tracked_users(db), now, f, s)
            total_pages == attendance_report(db, now, 0, f, s, TRUE).total_pages
            pages == [p \in 0..(total_pages - 1) |->
                         attendance_report(db, now, p, f, s, TRUE).paged]
        IN  /\ \A p \in 0..(total_pages - 2) : Len(pages[p]) = PAGE_SIZE
            /\ \A all \in {Concat(pages, 0, total_pages - 1)} :
                  /\ all = full
                  /\ Cardinality({ all[i].user_id : i \in DOMAIN all }) = Len(all)

\* The second of two pages was sent
C10_Witness ==
    /\ reply.kind = "edit"
    /\ int_of(reply.request[2]) = 1
    /\ reply.text.page_shown = 2
    /\ Len(reply.text.body) >= 2

---------------------------------------------------------------------------
(* Claims about callback data that is not that of a report *)

\* The page fields that are the text of an integer
IntegerTexts == { IntStr(p) : p \in -9..99 }

\* Callback data that has not four fields, or whose page field is not an
\* integer
Undecodable(data) == Len(data) # 4 \/ data[2] \notin IntegerTexts

\* The step is the handling of the callback reply'.request
Navigated == reply'.kind \in {"answer", "edit", "send"}

(* C11: the handling of callback data that has not exactly four fields, or *)
(* whose page field is not an integer, answers "Invalid callback data."    *)
(* and leaves the table as it was: no scan runs and no report is sent or   *)
(* edited.                                                                 *)
C11_UndecodableChangesNothing ==
    [][ (Navigated /\ Undecodable(reply'.request)) =>
            /\ users' = users
            /\ reply'.kind = "answer"
            /\ reply'.text = "Invalid callback data." ]_vars

\* Data with a page field "x" was answered with the error on a table in
\* which a scan would have marked a user
C11_Witness ==
    /\ reply.kind = "answer"
    /\ Len(reply.request) = 4
    /\ reply.request[2] = <<120>>
    /\ scan_and_mark_inactive_once(users, now) # users

(* C12: callback data with four fields and an integer page whose filter is *)
(* not all, active or inactive, or whose sort is not name or last, is      *)
(* answered with the error and with no report.                             *)
C12_UnknownFilterOrSortIsRefused ==
    ( /\ reply.kind \in {"answer", "edit", "send"}
      /\ ~Undecodable(reply.request)
      /\ \/ reply.request[3] \notin ReportFilters
         \/ reply.request[4] \notin ReportSorts )
    => reply.kind = "answer"

---------------------------------------------------------------------------
(* Claims about the keyboard of a report *)

\* The buttons of a keyboard, and those with a given label
ButtonsOf(kb) == UNION { Range(kb[i]) : i \in DOMAIN kb }

Labelled(kb, text) == { b \in ButtonsOf(kb) : b.text = text }

\* The (page, filter, sort) that handle_attendance_callback decodes from
\* the data of a button
Target(b) == <<int_of(b.data[2]), b.data[3], b.data[4]>>

(* C13: every button of a report for (page, filter, sort, total_pages)     *)
(* holds data that decodes to a full triple: Prev is there iff page > 0    *)
(* and holds (page-1, filter, sort); Next is there iff page <              *)
(* total_pages-1 and holds (page+1, filter, sort); the three filter        *)
(* buttons hold (page, f, sort) and the two sort buttons (page, filter,    *)
(* s); the pages of Prev and Next are within 0..total_pages-1.             *)
C13_ButtonsCarryTheTriple ==
    IsReport(reply) =>
        LET kb == reply.kb
            page == reply.text.page_shown - 1
            filter == reply.request[3]
            sort == reply.request[4]
            total_pages == PagesFor(Cardinality(Kept(filter)))
            one(text, triple) ==
                /\ Cardinality(Labelled(kb, text)) = 1
                /\ \A b \in Labelled(kb, text) : Target(b) = triple
        IN  /\ \A b \in ButtonsOf(kb) :
                  /\ b.data[1] = "ATT"
                  /\ ~Undecodable(b.data)
                  /\ decode_ok(b.data)
            /\ IF page > 0 THEN one("Prev", <<page - 1, filter, sort>>)
               ELSE Labelled(kb, "Prev") = {}
            /\ IF page < total_pages - 1 THEN one("Next", <<page + 1, filter, sort>>)
               ELSE Labelled(kb, "Next") = {}
            /\ \A b \in Labelled(kb, "Prev") \cup Labelled(kb, "Next") :
                  Target(b)[1] \in 0..(total_pages - 1)
            /\ one("All", <<page, "all", sort>>)
            /\ one("Active", <<page, "active", sort>>)
            /\ one("Inactive", <<page, "inactive", sort>>)
            /\ one("Sort: Name", <<page, filter, "name">>)
            /\ one("Sort: Last active", <<page, filter, "last">>)
            /\ Cardinality(ButtonsOf(kb))
                  = 5 + Cardinality(Labelled(kb, "Prev")) + Cardinality(Labelled(kb, "Next"))

\* The report of the second of two pages of the inactive users, sorted by
\* last activity, with its Prev button
C13_Witness ==
    /\ reply.kind = "edit"
    /\ reply.request[3] = "inactive"
    /\ reply.request[4] = "last"
    /\ reply.text.page_shown = 2
    /\ Labelled(reply.kb, "Prev") # {}
    /\ Labelled(reply.kb, "Next") = {}

---------------------------------------------------------------------------
(* Claims about repeated requests *)

(* C14: when the callback just answered with a report is handled again, at *)
(* the same time and with nothing in between, the second report has the    *)
(* text and the keyboard of the first, and the second handling, its scan   *)
(* included, leaves every row as it was.                                   *)
C14_NavigationIsIdempotent ==
    [][ ( /\ reply.kind \in {"edit", "send"}
          /\ reply'.kind \in {"edit", "send"}
          /\ reply'.request = reply.request
          /\ now' = now )
        => /\ users' = users
           /\ reply'.text = reply.text
           /\ reply'.kb = reply.kb ]_vars

\* A report was sent by a handling whose scan marked a user
C14_Witness ==
    /\ reply.kind \in {"edit", "send"}
    /\ \E u \in DOMAIN users : users[u].inactive_marked_at = Some(now)

---------------------------------------------------------------------------
(* Claims about members that leave and join *)

(* C15: when a user that is not a bot leaves, last_active, inactive_until, *)
(* inactive_marked_at and the count of the user's row are as before; when  *)
(* the user had no row, the row the event creates has last_active NULL.    *)
C15_LeaveIsNoActivity ==
    \A x \in Members :
        ~x.is_bot =>
            LET after == handle_left_member(users, now, Some(x))[x.id]
            IN  IF x.id \in DOMAIN users
                THEN /\ after.last_active = users[x.id].last_active
                     /\ after.inactive_until = users[x.id].inactive_until
                     /\ after.inactive_marked_at = users[x.id].inactive_marked_at
                     /\ after.messages_since_inactive = users[x.id].messages_since_inactive
                ELSE after.last_active = NULL

(* C16: when a user that is not a bot joins, the user's last_active is     *)
(* now; inactive_until and inactive_marked_at are as before (NULL for a    *)
(* new row) and the count is not higher than before: a join reduces and    *)
(* clears no window.                                                       *)
C16_JoinMarksActiveOnly ==
    \A l \in MemberLists :
        \A i \in DOMAIN l :
            ~l[i].is_bot =>
                LET id == l[i].id
                    after == handle_new_members(users, now, l, 1)[id]
                IN  /\ after.last_active = Some(now)
                    /\ IF id \in DOMAIN users
                       THEN /\ after.inactive_until = users[id].inactive_until
                            /\ after.inactive_marked_at = users[id].inactive_marked_at
                            /\ after.messages_since_inactive <= users[id].messages_since_inactive
                       ELSE /\ after.inactive_until = NULL
                            /\ after.inactive_marked_at = NULL
                            /\ after.messages_since_inactive = 0

\* A user whose window is in force and was reduced by messages, the
\* minute before it ends, whom a join leaves with the window and the count
C16_Witness ==
    \E l \in MemberLists :
        /\ ~l[1].is_bot
        /\ l[1].id \in DOMAIN users
        /\ LET r == users[l[1].id]
               after == handle_new_members(users, now, l, 1)[l[1].id]
           IN  /\ r.inactive_until = Some(now + 1)
               /\ r.messages_since_inactive > 0
               /\ r.last_active # Some(now)
               /\ after.inactive_until = r.inactive_until
               /\ after.messages_since_inactive = r.messages_since_inactive
               /\ after.last_active = Some(now)

---------------------------------------------------------------------------
(* Claims about scans that overlap with handlers (SpecConc) *)

\* The step is the write of a scan
ScanWrites == \E p \in Slots : At(p, "scan_update") /\ procs'[p].pc = "idle"

(* C17: whatever the interleaving, the write of a scan changes a row only  *)
(* if, at the moment of the write, the row has no inactive_until and       *)
(* now - last_active >= 24h: a user whose activity was stored after the    *)
(* scan read the table is not marked, and a window already set is not      *)
(* overwritten.                                                            *)
C17_ScanWritesOnlyWhatIsDue ==
    [][ ScanWrites =>
          \A u \in DOMAIN users :
              users'[u] # users[u] =>
                  /\ users[u].inactive_until = NULL
                  /\ users[u].last_active # NULL
                  /\ now - Val(users[u].last_active) >= 24 * 60 ]_vars

---------------------------------------------------------------------------
(* Claims about the order of a report *)

\* The name a row is sorted by: the username if there is one, else the
\* first name if there is one, else the user id as text; in lower case
SortName(row) ==
    Lower(IF row.username # NULL THEN Val(row.username)
          ELSE IF row.first_name # NULL THEN Val(row.first_name)
          ELSE Str(row.user_id))

(* C18: sort 'name' puts the kept rows in ascending order of the           *)
(* lower-cased name (username, else first name, else the user id as        *)
(* text), rows of equal name in the order of the snapshot, and sorting the *)
(* result again returns it unchanged.                                      *)
C18_NameSortIsStable ==
    \A f \in ReportFilters :
        \A out \in { filter_and_sort_users(all_tracked_users(users), now, f, "name") } :
            /\ { out[i].user_id : i \in DOMAIN out } = Kept(f)
            /\ \A i \in DOMAIN out : \A j \in DOMAIN out :
                  i < j =>
                      /\ ~StrLess(SortName(out[j]), SortName(out[i]))
                      /\ SortName(out[i]) = SortName(out[j])
                            => out[i].user_id < out[j].user_id
            /\ filter_and_sort_users(out, now, f, "name") = out

\* A report sorted by name of a table that tracks two users whose names
\* differ in case only, and two users with no name
C18_Witness ==
    /\ reply.kind = "edit"
    /\ reply.request[3] = "all"
    /\ reply.request[4] = "name"
    /\ \E rows \in { all_tracked_users(users) } :
          /\ \E i \in DOMAIN rows : \E j \in DOMAIN rows :
                /\ SortName(rows[i]) = SortName(rows[j])
                /\ rows[i].first_name # rows[j].first_name
          /\ \E i \in DOMAIN rows : \E j \in DOMAIN rows :
                /\ i # j
                /\ rows[i].username = NULL /\ rows[i].first_name = NULL
                /\ rows[j].username = NULL /\ rows[j].first_name = NULL

---------------------------------------------------------------------------
(* Claims about the windows the table holds (Spec) *)

(* C19: a row that holds an inactive_until keeps it, and its               *)
(* inactive_marked_at, through every scan (periodic, or run for a report   *)
(* or a callback), now and at any later time, and through every leave      *)
(* event; once the window has run out the user is shown and counted as     *)
(* Active, and no scan marks the user again.                               *)
C19_WindowStaysOnceSet ==
    \A u \in DOMAIN users :
        users[u].inactive_until # NULL =>
            /\ \A t \in {now} \cup { i \in Instants : i > now } :
                  LET after == scan_and_mark_inactive_once(users, t)[u]
                  IN  /\ after.inactive_until = users[u].inactive_until
                      /\ after.inactive_marked_at = users[u].inactive_marked_at
            /\ \A x \in Members :
                  x.id = u =>
                      LET after == handle_left_member(users, now, Some(x))[u]
                      IN  /\ after.inactive_until = users[u].inactive_until
                          /\ after.inactive_marked_at = users[u].inactive_marked_at
            /\ (users[u].is_bot = 0 /\ Val(users[u].inactive_until) <= now) =>
                  \A rows \in { all_tracked_users(users) } :
                      /\ \A i \in DOMAIN rows :
                            rows[i].user_id = u =>
                                format_user_line(rows[i], now).status = <<"Active">>
                      /\ compute_counts(rows, now).active
                            = Cardinality({ v \in Tracked : ~InForce(v) })

\* A report was sent while a user, silent for 48h, holds a window that ran
\* out
C19_Witness ==
    /\ IsReport(reply)
    /\ \E u \in Tracked :
          /\ users[u].inactive_until # NULL
          /\ Val(users[u].inactive_until) <= now
          /\ now - Val(users[u].last_active) >= 2 * 24 * 60

(* C20: with the handlers and scans run one at a time, a row with no       *)
(* inactive_until has count 0; a row with an inactive_until has a count    *)
(* from 0 to 14; and a row whose window is in force has inactive_until =   *)
(* inactive_marked_at + 24h - count minutes.                               *)
C20_CountMatchesWindow ==
    \A u \in DOMAIN users :
        LET r == users[u]
        IN  /\ r.inactive_until = NULL => r.messages_since_inactive = 0
            /\ r.inactive_until # NULL =>
                  /\ 0 <= r.messages_since_inactive
                  /\ r.messages_since_inactive <= 14
            /\ InForce(u) =>
                  /\ r.inactive_marked_at # NULL
                  /\ Val(r.inactive_until)
                        = Val(r.inactive_marked_at) + 24 * 60 - r.messages_since_inactive

\* A window in force that 14 messages have reduced
C20_Witness ==
    \E u \in DOMAIN users :
        /\ InForce(u)
        /\ users[u].messages_since_inactive = 14
        /\ Val(users[u].inactive_until) = Val(users[u].inactive_marked_at) + 24 * 60 - 14
====
